---- MODULE Spec2Model ----
(***************************************************************************)
(* A model of x-todo (src/main.rs): the TodoList task store, its           *)
(* FileStorage persistence provider and the JSON file "todo.json".         *)
(*                                                                         *)
(* Text is modelled as a sequence of one-character strings, a HashMap as a *)
(* function from its keys to its values, and the file as the sequence of   *)
(* the members of the JSON object that serde_json writes.                  *)
(***************************************************************************)
EXTENDS Naturals, Sequences, FiniteSets

VARIABLES
    file,       \* the storage location "todo.json"
    up,         \* TRUE while a TodoList exists (TodoList::new returned Ok)
    tasks,      \* TodoList.tasks : HashMap<usize, Task>
    next_id,    \* TodoList.next_id
    ret,        \* the last call: its operation, arguments and result
    deleted,    \* history: ids whose delete_task returned Ok, over all stores
    lastIssued, \* history: the last id returned by add_task of the current store, 0 if none
    firstRun,   \* history: the current store was built from a nonexistent location
    calls,      \* number of steps made so far: TodoList::new and the turns of the menu loop
    term        \* the terminal: the menu choice and the id text read last, the line printed last

vars == <<file, up, tasks, next_id, ret, deleted, lastIssued, firstRun, calls, term>>

----------------------------------------------------------------------------
(* Bounds *)

\* a run makes at most MaxCalls steps: TodoList::new and the turns of the menu loop
MaxCalls == 6

\* the largest id a caller passes to complete_task and delete_task
MaxArg == 4

\* the texts a caller passes to add_task
Descriptions == { <<>>, <<" ">>, <<" ", "\"", "a">> }

\* the ids a caller passes to complete_task and delete_task
Ids == 1 .. MaxArg

\* the lines a user types at the menu prompt
ChoiceLines ==
    { <<"1">>, <<"2">>, <<"3">>, <<"4">>, <<"5">>, <<" ", "5">>, <<"6">>, <<>> }

----------------------------------------------------------------------------
(* Text *)

Whitespace == {" ", "\t", "\n"}

RECURSIVE TrimStart(_)
TrimStart(s) ==
    IF s # <<>> /\ Head(s) \in Whitespace THEN TrimStart(Tail(s)) ELSE s

RECURSIVE TrimEnd(_)
TrimEnd(s) ==
    IF s # <<>> /\ s[Len(s)] \in Whitespace
    THEN TrimEnd(SubSeq(s, 1, Len(s) - 1))
    ELSE s

\* str::trim
Trim(s) == TrimEnd(TrimStart(s))

\* a check that forgets the trim
DescriptionIsValidUntrimmed(description) == description # <<>>

\* TaskDescription::new: Ok unless the trimmed text is empty; the text is kept untrimmed
DescriptionIsValid(description) == Trim(description) # <<>>

----------------------------------------------------------------------------
(* Numbers as text: serde_json's and str::parse::<usize> *)

DigitChars == <<"0", "1", "2", "3", "4", "5", "6", "7", "8", "9">>

RECURSIVE ToDigits(_)
ToDigits(n) ==
    IF n < 10
    THEN <<DigitChars[n + 1]>>
    ELSE Append(ToDigits(n \div 10), DigitChars[(n % 10) + 1])

DigitVal(c) == CHOOSE d \in 0 .. 9 : DigitChars[d + 1] = c

RECURSIVE FromDigits(_)
FromDigits(s) ==
    IF s = <<>>
    THEN 0
    ELSE 10 * FromDigits(SubSeq(s, 1, Len(s) - 1)) + DigitVal(s[Len(s)])

\* a parse that takes the leading digits and stops at the first other character
ParseUsizePrefix(text) ==
    LET n == Cardinality({ i \in DOMAIN text :
                 \A j \in 1 .. i : \E d \in DOMAIN DigitChars : DigitChars[d] = text[j] })
    IN [ ok |-> TRUE, val |-> FromDigits(SubSeq(text, 1, n)) ]

\* str::parse::<usize>: an optional "+", then one or more decimal digits
ParseUsize(text) ==
    LET digits == IF text # <<>> /\ Head(text) = "+" THEN Tail(text) ELSE text
        ok     == /\ digits # <<>>
                  /\ \A i \in DOMAIN digits : \E d \in DOMAIN DigitChars : DigitChars[d] = digits[i]
    IN [ ok |-> ok, val |-> IF ok THEN FromDigits(digits) ELSE 0 ]

\* the texts a user types at the id prompts
IdTexts ==
    { ToDigits(i) : i \in Ids }
    \cup { <<>>, <<"-", "1">>, <<"1", "x">>, <<"+", "2">>, <<"1", " ">> }

----------------------------------------------------------------------------
(* JSON text, as serde_json writes and reads it *)

RECURSIVE JsonEscape(_)
JsonEscape(s) ==
    IF s = <<>>
    THEN <<>>
    ELSE (IF Head(s) \in {"\"", "\\"} THEN <<"\\", Head(s)>> ELSE <<Head(s)>>)
         \o JsonEscape(Tail(s))

\* a reader that keeps the escapes
JsonUnescapeRaw(s) == s

RECURSIVE JsonUnescape(_)
JsonUnescape(s) ==
    IF s = <<>>
    THEN <<>>
    ELSE IF Head(s) = "\\" /\ Len(s) >= 2
         THEN <<s[2]>> \o JsonUnescape(Tail(Tail(s)))
         ELSE <<Head(s)>> \o JsonUnescape(Tail(s))

\* one member of the JSON object: "key": {"id": .., "description": "..", "completed": ..}
MemberOf(key, task) ==
    [ key         |-> ToDigits(key),
      id          |-> ToDigits(task.id),
      description |-> JsonEscape(task.description),
      completed   |-> task.completed ]

\* the orders in which a HashMap with key set S can be iterated
RECURSIVE IterationOrders(_)
IterationOrders(S) ==
    IF S = {}
    THEN { <<>> }
    ELSE UNION { { <<k>> \o o : o \in IterationOrders(S \ {k}) } : k \in S }

\* serde_json::to_string(tasks), the map iterated in the given order
Serialize(ts, order) ==
    [ i \in 1 .. Len(order) |-> MemberOf(order[i], ts[order[i]]) ]

\* a Task whose completed field is not read back
TaskOfMemberNoFlag(m) ==
    [ id          |-> FromDigits(m.id),
      description |-> JsonUnescape(m.description),
      completed   |-> FALSE ]

TaskOfMember(m) ==
    [ id          |-> FromDigits(m.id),
      description |-> JsonUnescape(m.description),
      completed   |-> m.completed ]

EmptyTasks == [ k \in {} |-> 0 ]

\* HashMap::insert
MapInsert(ts, key, task) ==
    [ k \in (DOMAIN ts) \cup {key} |-> IF k = key THEN task ELSE ts[k] ]

\* a removal that also takes the older entries
MapRemoveUpTo(ts, key) ==
    [ k \in { j \in DOMAIN ts : j > key } |-> ts[k] ]

\* HashMap::remove
MapRemove(ts, key) ==
    [ k \in (DOMAIN ts) \ {key} |-> ts[k] ]

\* serde_json::from_str: the members inserted into a HashMap one after the other
RECURSIVE Deserialize(_)
Deserialize(members) ==
    IF members = <<>>
    THEN EmptyTasks
    ELSE LET m == members[Len(members)]
         IN MapInsert(Deserialize(SubSeq(members, 1, Len(members) - 1)),
                      FromDigits(m.key), TaskOfMember(m))

----------------------------------------------------------------------------
(* The storage location *)

Absent == [ kind |-> "absent", members |-> <<>> ]

\* a file cut short by a failed write: no JSON value
Truncated == [ kind |-> "truncated", members |-> <<>> ]

Json(members) == [ kind |-> "json", members |-> members ]

\* a save that drops the result of fs::write
SaveOutcomesSwallowed(ts) ==
    { [ file |-> Json(Serialize(ts, o)), status |-> "Ok" ] : o \in IterationOrders(DOMAIN ts) }
    \cup
    { [ file |-> file, status |-> "Ok" ],
      [ file |-> Truncated, status |-> "Ok" ] }

\* FileStorage::save: the outcomes of writing ts. fs::write can fail before it
\* opens the file, which then is as it was, or while it writes, which cuts it short
SaveOutcomes(ts) ==
    { [ file |-> Json(Serialize(ts, o)), status |-> "Ok" ] : o \in IterationOrders(DOMAIN ts) }
    \cup
    { [ file |-> file, status |-> "IoError" ],
      [ file |-> Truncated, status |-> "IoError" ] }

\* a load that takes content it cannot read for an empty collection
LoadOutcomesLenient ==
    IF file.kind = "absent"
    THEN { [ status |-> "Ok", tasks |-> EmptyTasks ] }
    ELSE ( IF file.kind = "json"
           THEN { [ status |-> "Ok", tasks |-> Deserialize(file.members) ] }
           ELSE { [ status |-> "Ok", tasks |-> EmptyTasks ] } )
         \cup
         { [ status |-> "IoError", tasks |-> EmptyTasks ] }

\* FileStorage::load: the outcomes of reading the location
LoadOutcomes ==
    IF file.kind = "absent"
    THEN { [ status |-> "Ok", tasks |-> EmptyTasks ] }
    ELSE ( IF file.kind = "json"
           THEN { [ status |-> "Ok", tasks |-> Deserialize(file.members) ] }
           ELSE { [ status |-> "UnexpectedEof", tasks |-> EmptyTasks ] } )
         \cup
         { [ status |-> "IoError", tasks |-> EmptyTasks ] }

----------------------------------------------------------------------------
(* TodoList *)

SetMax(S) == CHOOSE m \in S : \A x \in S : x <= m

\* a counter that starts at 0 on an empty collection
NextIdAfterLoadZero(ts) == IF DOMAIN ts = {} THEN 0 ELSE SetMax(DOMAIN ts) + 1

\* a counter taken from the number of tasks
NextIdAfterLoadCount(ts) == Cardinality(DOMAIN ts) + 1

\* tasks.keys().max().map_or(1, |&id| id + 1)
NextIdAfterLoad(ts) == IF DOMAIN ts = {} THEN 1 ELSE SetMax(DOMAIN ts) + 1

\* an add that forgets to advance the counter
NextIdAfterAddStuck(n) == n

\* self.next_id += 1
NextIdAfterAdd(n) == n + 1

\* tasks.get_mut(&id) is Some, tasks.remove(&id).is_some()
HasTask(ts, id) == id \in DOMAIN ts

\* a task that takes the counter after it was advanced
NewTaskOffByOne(id, description) ==
    [ id |-> id + 1, description |-> description, completed |-> FALSE ]

NewTask(id, description) ==
    [ id |-> id, description |-> description, completed |-> FALSE ]

\* a complete that flips the flag
MarkCompletedToggle(ts, id) == [ ts EXCEPT ![id].completed = ~@ ]

MarkCompleted(ts, id) == [ ts EXCEPT ![id].completed = TRUE ]

RECURSIVE InsertSorted(_, _)
InsertSorted(sorted, t) ==
    IF sorted = <<>>
    THEN <<t>>
    ELSE IF sorted[Len(sorted)].id <= t.id
         THEN Append(sorted, t)
         ELSE Append(InsertSorted(SubSeq(sorted, 1, Len(sorted) - 1), t), sorted[Len(sorted)])

\* a listing in iteration order
SortByKeyUnsorted(s) == s

\* sort_by_key(|task| task.id.0): a stable sort
RECURSIVE SortByKey(_)
SortByKey(s) ==
    IF s = <<>>
    THEN <<>>
    ELSE InsertSorted(SortByKey(SubSeq(s, 1, Len(s) - 1)), s[Len(s)])

\* saves: the number of Storage::save calls the call made; saved: the collection
\* passed to the last of them; wrote: what that save returned
NoCall == [ op |-> "none", id |-> 0, description |-> <<>>, status |-> "Ok",
            val |-> 0, listing |-> <<>>, saves |-> 0, absent |-> FALSE, again |-> FALSE,
            saved |-> EmptyTasks, wrote |-> "none" ]

NoInput == [ choice |-> <<>>, text |-> <<>>, printed |-> "" ]

\* get_input: the line read, trimmed
GetInput(line) == Trim(line)

Init ==
    /\ file = Absent
    /\ up = FALSE
    /\ tasks = EmptyTasks
    /\ next_id = 0
    /\ ret = NoCall
    /\ deleted = {}
    /\ lastIssued = 0
    /\ firstRun = FALSE
    /\ calls = 0
    /\ term = NoInput

\* main, lines 157-158: the process starts and builds the store with TodoList::new
New ==
    /\ calls < MaxCalls
    /\ calls' = calls + 1
    /\ \E out \in LoadOutcomes :
        /\ up' = (out.status = "Ok")
        /\ tasks' = out.tasks
        /\ next_id' = IF out.status = "Ok" THEN NextIdAfterLoad(out.tasks) ELSE 0
        /\ ret' = [ NoCall EXCEPT !.op = "new", !.status = out.status,
                                  !.absent = (file.kind = "absent") ]
        /\ lastIssued' = 0
        /\ firstRun' = (out.status = "Ok" /\ file.kind = "absent")
        /\ UNCHANGED <<file, deleted>>

\* an add that drops the result of the save
AddTaskIgnoringSave(description) ==
    /\ up
    /\ calls < MaxCalls
    /\ calls' = calls + 1
    /\ IF ~DescriptionIsValid(description)
       THEN /\ ret' = [ NoCall EXCEPT !.op = "add", !.description = description,
                                      !.status = "InvalidInput" ]
            /\ UNCHANGED <<file, up, tasks, next_id, deleted, lastIssued,
                           firstRun>>
       ELSE /\ tasks' = MapInsert(tasks, next_id, NewTask(next_id, description))
            /\ next_id' = NextIdAfterAdd(next_id)
            /\ \E out \in SaveOutcomes(tasks') :
                 /\ file' = out.file
                 /\ lastIssued' = next_id
                 /\ ret' = [ NoCall EXCEPT !.op = "add", !.description = description,
                                           !.status = "Ok", !.saves = 1,
                                           !.saved = tasks', !.wrote = out.status,
                                           !.val = next_id ]
            /\ UNCHANGED <<up, deleted, firstRun>>

\* an add that undoes the insertion when the save fails
AddTaskRollback(description) ==
    /\ up
    /\ calls < MaxCalls
    /\ calls' = calls + 1
    /\ IF ~DescriptionIsValid(description)
       THEN /\ ret' = [ NoCall EXCEPT !.op = "add", !.description = description,
                                      !.status = "InvalidInput" ]
            /\ UNCHANGED <<file, up, tasks, next_id, deleted, lastIssued,
                           firstRun>>
       ELSE LET inserted == MapInsert(tasks, next_id, NewTask(next_id, description))
            IN /\ \E out \in SaveOutcomes(inserted) :
                    /\ file' = out.file
                    /\ tasks' = IF out.status = "Ok" THEN inserted ELSE tasks
                    /\ next_id' = IF out.status = "Ok" THEN NextIdAfterAdd(next_id) ELSE next_id
                    /\ lastIssued' = IF out.status = "Ok" THEN next_id ELSE lastIssued
                    /\ ret' = [ NoCall EXCEPT !.op = "add", !.description = description,
                                              !.status = out.status, !.saves = 1,
                                              !.saved = inserted, !.wrote = out.status,
                                              !.val = IF out.status = "Ok" THEN next_id ELSE 0 ]
               /\ UNCHANGED <<up, deleted, firstRun>>

AddTask(description) ==
    /\ up
    /\ calls < MaxCalls
    /\ calls' = calls + 1
    /\ IF ~DescriptionIsValid(description)
       THEN /\ ret' = [ NoCall EXCEPT !.op = "add", !.description = description,
                                      !.status = "InvalidInput" ]
            /\ UNCHANGED <<file, up, tasks, next_id, deleted, lastIssued,
                           firstRun>>
       ELSE /\ tasks' = MapInsert(tasks, next_id, NewTask(next_id, description))
            /\ next_id' = NextIdAfterAdd(next_id)
            /\ \E out \in SaveOutcomes(tasks') :
                 /\ file' = out.file
                 /\ lastIssued' = IF out.status = "Ok" THEN next_id ELSE lastIssued
                 /\ ret' = [ NoCall EXCEPT !.op = "add", !.description = description,
                                           !.status = out.status, !.saves = 1,
                                           !.saved = tasks', !.wrote = out.status,
                                           !.val = IF out.status = "Ok" THEN next_id ELSE 0 ]
            /\ UNCHANGED <<up, deleted, firstRun>>

\* a complete that saves before it sets the flag
CompleteTaskSaveFirst(id) ==
    /\ up
    /\ calls < MaxCalls
    /\ calls' = calls + 1
    /\ IF HasTask(tasks, id)
       THEN /\ tasks' = MarkCompleted(tasks, id)
            /\ \E out \in SaveOutcomes(tasks) :
                 /\ file' = out.file
                 /\ ret' = [ NoCall EXCEPT !.op = "complete", !.id = id,
                                           !.status = out.status, !.saves = 1,
                                           !.saved = tasks, !.wrote = out.status,
                                           !.again = tasks[id].completed ]
            /\ UNCHANGED <<up, next_id, deleted, lastIssued, firstRun>>
       ELSE /\ ret' = [ NoCall EXCEPT !.op = "complete", !.id = id, !.status = "NotFound" ]
            /\ UNCHANGED <<file, up, tasks, next_id, deleted, lastIssued,
                           firstRun>>

CompleteTask(id) ==
    /\ up
    /\ calls < MaxCalls
    /\ calls' = calls + 1
    /\ IF HasTask(tasks, id)
       THEN /\ tasks' = MarkCompleted(tasks, id)
            /\ \E out \in SaveOutcomes(tasks') :
                 /\ file' = out.file
                 /\ ret' = [ NoCall EXCEPT !.op = "complete", !.id = id,
                                           !.status = out.status, !.saves = 1,
                                           !.saved = tasks', !.wrote = out.status,
                                           !.again = tasks[id].completed ]
            /\ UNCHANGED <<up, next_id, deleted, lastIssued, firstRun>>
       ELSE /\ ret' = [ NoCall EXCEPT !.op = "complete", !.id = id, !.status = "NotFound" ]
            /\ UNCHANGED <<file, up, tasks, next_id, deleted, lastIssued,
                           firstRun>>

ListTasks ==
    /\ up
    /\ calls < MaxCalls
    /\ calls' = calls + 1
    /\ \E o \in IterationOrders(DOMAIN tasks) :
         ret' = [ NoCall EXCEPT !.op = "list",
                                !.listing = SortByKey([ i \in 1 .. Len(o) |-> tasks[o[i]] ]) ]
    /\ UNCHANGED <<file, up, tasks, next_id, deleted, lastIssued, firstRun>>

\* a delete that does not look at what HashMap::remove returned
DeleteTaskUnchecked(id) ==
    /\ up
    /\ calls < MaxCalls
    /\ calls' = calls + 1
    /\ tasks' = MapRemove(tasks, id)
    /\ \E out \in SaveOutcomes(tasks') :
         /\ file' = out.file
         /\ deleted' = IF out.status = "Ok" THEN deleted \cup {id} ELSE deleted
         /\ ret' = [ NoCall EXCEPT !.op = "delete", !.id = id,
                                   !.status = out.status, !.saves = 1,
                                   !.saved = tasks', !.wrote = out.status ]
    /\ UNCHANGED <<up, next_id, lastIssued, firstRun>>

DeleteTask(id) ==
    /\ up
    /\ calls < MaxCalls
    /\ calls' = calls + 1
    /\ IF HasTask(tasks, id)
       THEN /\ tasks' = MapRemove(tasks, id)
            /\ \E out \in SaveOutcomes(tasks') :
                 /\ file' = out.file
                 /\ deleted' = IF out.status = "Ok" THEN deleted \cup {id} ELSE deleted
                 /\ ret' = [ NoCall EXCEPT !.op = "delete", !.id = id,
                                           !.status = out.status, !.saves = 1,
                                           !.saved = tasks', !.wrote = out.status ]
            /\ UNCHANGED <<up, next_id, lastIssued, firstRun>>
       ELSE /\ ret' = [ NoCall EXCEPT !.op = "delete", !.id = id, !.status = "NotFound" ]
            /\ UNCHANGED <<file, up, tasks, next_id, deleted, lastIssued,
                           firstRun>>

----------------------------------------------------------------------------
(* main *)

\* the line main prints for the result of a call
Printed(r) ==
    IF r.op = "list"
    THEN (IF r.listing = <<>> THEN "No tasks found." ELSE "All tasks:")
    ELSE IF r.status # "Ok"
         THEN "Error"
         ELSE IF r.op = "add" THEN "Added task with ID"
              ELSE IF r.op = "complete" THEN "Marked task as complete"
              ELSE "Deleted task"

\* the process ends: the store is dropped
StoreDropped ==
    /\ up' = FALSE
    /\ tasks' = EmptyTasks
    /\ next_id' = 0
    /\ lastIssued' = 0
    /\ firstRun' = FALSE
    /\ ret' = NoCall
    /\ UNCHANGED <<file, deleted>>

\* a turn of the loop that calls no operation of the store
NoOperation ==
    /\ up
    /\ calls < MaxCalls
    /\ calls' = calls + 1
    /\ ret' = NoCall
    /\ UNCHANGED <<file, up, tasks, next_id, deleted, lastIssued, firstRun>>

\* the process starts
Start ==
    /\ New
    /\ term' = NoInput

\* "1": the description goes to add_task (main passes the trimmed line; other
\* callers pass any text)
Add ==
    \E line \in ChoiceLines :
        /\ GetInput(line) = <<"1">>
        /\ \E description \in Descriptions : AddTask(description)
        /\ term' = [ choice |-> <<"1">>, text |-> <<>>, printed |-> Printed(ret') ]

\* "2"
List ==
    \E line \in ChoiceLines :
        /\ GetInput(line) = <<"2">>
        /\ ListTasks
        /\ term' = [ choice |-> <<"2">>, text |-> <<>>, printed |-> Printed(ret') ]

\* "3": the id text is parsed, then complete_task is called or the text refused
Complete ==
    \E line \in ChoiceLines : \E idLine \in IdTexts :
        LET id_str == GetInput(idLine)
            parsed == ParseUsize(id_str)
        IN /\ GetInput(line) = <<"3">>
           /\ IF parsed.ok
              THEN /\ CompleteTask(parsed.val)
                   /\ term' = [ choice |-> <<"3">>, text |-> id_str, printed |-> Printed(ret') ]
              ELSE /\ NoOperation
                   /\ term' = [ choice |-> <<"3">>, text |-> id_str,
                                printed |-> "Invalid ID format" ]

\* "4": the id text is parsed, then delete_task is called or the text refused
Delete ==
    \E line \in ChoiceLines : \E idLine \in IdTexts :
        LET id_str == GetInput(idLine)
            parsed == ParseUsize(id_str)
        IN /\ GetInput(line) = <<"4">>
           /\ IF parsed.ok
              THEN /\ DeleteTask(parsed.val)
                   /\ term' = [ choice |-> <<"4">>, text |-> id_str, printed |-> Printed(ret') ]
              ELSE /\ NoOperation
                   /\ term' = [ choice |-> <<"4">>, text |-> id_str,
                                printed |-> "Invalid ID format" ]

\* "5": break
Exit ==
    \E line \in ChoiceLines :
        /\ GetInput(line) = <<"5">>
        /\ up
        /\ calls < MaxCalls
        /\ calls' = calls + 1
        /\ StoreDropped
        /\ term' = [ choice |-> <<"5">>, text |-> <<>>, printed |-> "Goodbye!" ]

\* an arm for the other lines that leaves the loop
InvalidOptionBreaks ==
    \E line \in ChoiceLines :
        /\ GetInput(line) \notin { <<"1">>, <<"2">>, <<"3">>, <<"4">>, <<"5">> }
        /\ up
        /\ calls < MaxCalls
        /\ calls' = calls + 1
        /\ StoreDropped
        /\ term' = [ choice |-> GetInput(line), text |-> <<>>,
                     printed |-> "Invalid option, please try again." ]

\* any other line
InvalidOption ==
    \E line \in ChoiceLines :
        /\ GetInput(line) \notin { <<"1">>, <<"2">>, <<"3">>, <<"4">>, <<"5">> }
        /\ NoOperation
        /\ term' = [ choice |-> GetInput(line), text |-> <<>>,
                     printed |-> "Invalid option, please try again." ]

\* get_input and print_menu panic when the terminal fails: read_line(..).expect(..),
\* flush().unwrap()
TerminalFails ==
    /\ up
    /\ calls < MaxCalls
    /\ calls' = calls + 1
    /\ StoreDropped
    /\ term' = [ NoInput EXCEPT !.printed = "panic" ]

Next ==
    \/ Start
    \/ Add
    \/ List
    \/ Complete
    \/ Delete
    \/ Exit
    \/ InvalidOption
    \/ TerminalFails

Spec == Init /\ [][Next]_vars

----------------------------------------------------------------------------
(* Properties *)

Mutators == {"add", "complete", "delete"}

\* what a load of the file yields, when the file holds a JSON object
Persisted == Deserialize(file.members)

\* C1: once delete(k) has returned Ok, no later add returns k, also when the
\* store is built anew from the file between the delete and the add.
NoIdReuse ==
    (ret.op = "add" /\ ret.status = "Ok") => ret.val \notin deleted

\* C2: within one store, every successful add returns the value the counter had,
\* raises the counter by exactly 1, and returns more than every earlier add did.
IdMonotonicity ==
    [][ (ret'.op = "add" /\ ret'.status = "Ok")
        => /\ ret'.val = next_id
           /\ next_id' = next_id + 1
           /\ ret'.val > lastIssued ]_vars

\* on an empty store add, add, delete(1), add has returned 1, 2 and now 3
ThirdAddAfterDelete ==
    /\ firstRun
    /\ ret.op = "add" /\ ret.status = "Ok" /\ ret.val = 3
    /\ deleted = {1}
    /\ DOMAIN tasks = {2, 3}

\* C3: when add, complete or delete has returned Ok, the file holds exactly the
\* in-memory collection, also after earlier saves failed.
PersistedEqualsMemory ==
    (ret.op \in Mutators /\ ret.status = "Ok")
        => (file.kind = "json" /\ Persisted = tasks)

\* a call returns Ok in a store in which an earlier save failed
OkAfterFailedSave ==
    /\ firstRun /\ next_id > lastIssued + 1
    /\ ret.op \in Mutators /\ ret.status = "Ok"
    /\ \E id \in DOMAIN tasks : tasks[id].completed

IsBlank(text) == \A i \in DOMAIN text : text[i] \in {" ", "\t", "\n"}

\* C4: add with an empty or all-whitespace description fails with InvalidInput,
\* creates no task, leaves the counter and the file alone and calls no save.
BlankAddChangesNothing ==
    [][ (ret'.op = "add" /\ IsBlank(ret'.description))
        => /\ ret'.status = "InvalidInput"
           /\ ret'.saves = 0
           /\ UNCHANGED <<tasks, next_id, file, up>> ]_vars

BlankAddRejected ==
    /\ ret.op = "add" /\ ret.description = <<" ">> /\ ret.status = "InvalidInput"
    /\ DOMAIN tasks # {}

\* C5: complete and delete of an id that is not in the collection fail with
\* NotFound, leave collection, counter and file alone and call no save.
MissingIdChangesNothing ==
    [][ (ret'.op \in {"complete", "delete"} /\ ret'.id \notin DOMAIN tasks)
        => /\ ret'.status = "NotFound"
           /\ ret'.saves = 0
           /\ UNCHANGED <<tasks, next_id, file, up>> ]_vars

\* delete of an id that was deleted earlier, on a collection that is not empty
DeletedIdNotFound ==
    /\ ret.op = "delete" /\ ret.status = "NotFound"
    /\ ret.id \in deleted
    /\ DOMAIN tasks # {}

\* the completed flag of the tasks that a step keeps does not go from true to false
FlagsKept ==
    \A id \in (DOMAIN tasks) \cap (DOMAIN tasks') :
        tasks[id].completed => tasks'[id].completed

\* the tasks that a step creates are not completed
CreatedOpen ==
    \A id \in (DOMAIN tasks') \ (DOMAIN tasks) :
        ret'.op = "add" => ~tasks'[id].completed

\* the file holds a member for id, with completed = true
PersistedCompleted(id) ==
    /\ file.kind = "json"
    /\ \E i \in DOMAIN file.members :
         file.members[i].key = ToDigits(id) /\ file.members[i].completed

\* C6 as claimed: a task is created with completed = false and no step of add,
\* complete, delete, list or TodoList::new turns a completed task that stays in
\* the collection into a task that is not completed.
CompletedNeverReverts ==
    [][ CreatedOpen /\ FlagsKept ]_vars

\* C6 as amended: the same for add, complete, delete and list; TodoList::new keeps
\* the flag of every task that the file holds as completed.
CompletedNeverRevertsInStore ==
    [][ /\ CreatedOpen
        /\ ret'.op # "new" => FlagsKept
        /\ ret'.op = "new" =>
              \A id \in (DOMAIN tasks) \cap (DOMAIN tasks') :
                  (tasks[id].completed /\ PersistedCompleted(id)) => tasks'[id].completed ]_vars

\* a store built anew holds a task that was completed before and in the file
CompletedSurvivesNew ==
    /\ ret.op = "new" /\ ret.status = "Ok" /\ ~firstRun
    /\ \E id \in DOMAIN tasks : tasks[id].completed /\ PersistedCompleted(id)

\* C7: complete of a task that is already completed does not fail with NotFound,
\* returns Ok when its save succeeds and leaves the collection as it was, the
\* task still completed.
CompleteIdempotent ==
    [][ (ret'.op = "complete" /\ ret'.id \in DOMAIN tasks /\ tasks[ret'.id].completed)
        => /\ ret'.status \in {"Ok", "IoError"}
           /\ ret'.saves = 1
           /\ tasks' = tasks
           /\ tasks'[ret'.id].completed ]_vars

CompletedAgain ==
    /\ ret.op = "complete" /\ ret.status = "Ok" /\ ret.again
    /\ tasks[ret.id].completed

\* C8: a store built from the file right after add, complete or delete returned
\* Ok holds the collection of the store that wrote the file: the load does not
\* fail on the content, and it yields the same ids, descriptions and flags.
RoundTrip ==
    [][ (ret.op \in Mutators /\ ret.status = "Ok" /\ ret'.op = "new")
        => /\ ret'.status \in {"Ok", "IoError"}
           /\ ret'.status = "Ok" => (up' /\ tasks' = tasks) ]_vars

\* a store built from a file that holds two tasks, one of them completed
ReloadedTwoTasks ==
    /\ ret.op = "new" /\ ret.status = "Ok" /\ up
    /\ Cardinality(DOMAIN tasks) >= 2
    /\ \E id \in DOMAIN tasks : tasks[id].completed
    /\ \E id \in DOMAIN tasks : ~tasks[id].completed

\* TodoList::new on a location that does not exist returns a store with an empty
\* collection and counter 1
FirstRunEmpty ==
    (ret'.op = "new" /\ file.kind = "absent")
        => (ret'.status = "Ok" /\ up' /\ tasks' = EmptyTasks /\ next_id' = 1)

\* C9 as claimed: first run yields an empty store with counter 1, and the first
\* add that returns Ok returns 1.
FirstSuccessfulAddReturnsOne ==
    [][ /\ FirstRunEmpty
        /\ (firstRun /\ lastIssued = 0 /\ ret'.op = "add" /\ ret'.status = "Ok")
              => ret'.val = 1 ]_vars

\* C9 as amended: first run yields an empty store with counter 1, and the first
\* add that passes validation (the counter is still 1) returns 1 if it returns Ok.
FirstAddReturnsOne ==
    [][ /\ FirstRunEmpty
        /\ (firstRun /\ next_id = 1 /\ ret'.op = "add" /\ ret'.status = "Ok")
              => (ret'.val = 1 /\ DOMAIN tasks' = {1}) ]_vars

FirstAddReturned ==
    /\ firstRun
    /\ ret.op = "add" /\ ret.status = "Ok" /\ ret.val = 1
    /\ DOMAIN tasks = {1}

\* C10: list returns every task of the collection exactly once, in strictly
\* ascending order of id (an empty sequence for an empty collection), does not
\* fail and changes neither the collection, the counter nor the file.
ListSorted ==
    [][ ret'.op = "list"
        => /\ ret'.status = "Ok"
           /\ Len(ret'.listing) = Cardinality(DOMAIN tasks)
           /\ \A k \in DOMAIN tasks : \E i \in DOMAIN ret'.listing : ret'.listing[i] = tasks[k]
           /\ \A i \in DOMAIN ret'.listing : \A j \in DOMAIN ret'.listing :
                 i < j => ret'.listing[i].id < ret'.listing[j].id
           /\ ret'.saves = 0
           /\ UNCHANGED <<tasks, next_id, file, up>> ]_vars

\* a listing of three tasks
ListedThree ==
    /\ ret.op = "list"
    /\ Len(ret.listing) = 3
    /\ ret.listing[1].id = 1 /\ ret.listing[3].id = 3

\* C11: add, complete and delete that pass their check call save exactly once,
\* with the whole collection as it is after the mutation, and a save that
\* returns Ok has written exactly that collection; calls that fail their check,
\* and list, call no save.
SaveOncePerMutation ==
    [][ /\ (ret'.op = "add" /\ ~IsBlank(ret'.description))
              => (ret'.saves = 1 /\ ret'.saved = tasks' /\ next_id \in DOMAIN ret'.saved)
        /\ (ret'.op = "complete" /\ ret'.id \in DOMAIN tasks)
              => (ret'.saves = 1 /\ ret'.saved = tasks' /\ ret'.saved[ret'.id].completed)
        /\ (ret'.op = "delete" /\ ret'.id \in DOMAIN tasks)
              => (ret'.saves = 1 /\ ret'.saved = tasks' /\ ret'.id \notin DOMAIN ret'.saved)
        /\ (ret'.op = "add" /\ IsBlank(ret'.description)) => ret'.saves = 0
        /\ (ret'.op \in {"complete", "delete"} /\ ret'.id \notin DOMAIN tasks) => ret'.saves = 0
        /\ ret'.op \in {"list", "none"} => (ret'.saves = 0 /\ file' = file)
        /\ ret'.wrote = "Ok" => (file'.kind = "json" /\ Deserialize(file'.members) = ret'.saved)
      ]_vars

\* a complete of an open task has saved the collection with the task completed
SavedAfterComplete ==
    /\ ret.op = "complete" /\ ~ret.again /\ ret.saves = 1 /\ ret.wrote = "Ok"
    /\ Cardinality(DOMAIN ret.saved) >= 2

\* C12: TodoList::new sets the collection to the loaded one and the counter to
\* the largest loaded id plus 1, or to 1 when the loaded collection is empty.
CounterAfterNew ==
    [][ (ret'.op = "new" /\ ret'.status = "Ok")
        => /\ tasks' = IF file.kind = "absent" THEN EmptyTasks ELSE Persisted
           /\ DOMAIN tasks' = {} => next_id' = 1
           /\ DOMAIN tasks' # {} =>
                 /\ next_id' - 1 \in DOMAIN tasks'
                 /\ \A k \in DOMAIN tasks' : k < next_id' ]_vars

\* a store built from a file that holds task 2 and not task 1
NewAfterGap ==
    /\ ret.op = "new" /\ ret.status = "Ok"
    /\ DOMAIN tasks = {2}
    /\ next_id = 3

\* C13: add, complete and delete return Ok only if the save of the collection
\* after the mutation returned Ok, and return the error of the save when it
\* failed, add then without an id.
SaveFailureReturned ==
    [][ ret'.op \in Mutators
        => /\ ret'.status = "Ok" => (ret'.wrote = "Ok" /\ ret'.saved = tasks')
           /\ ret'.wrote \notin {"Ok", "none"}
                 => (ret'.status = ret'.wrote /\ ret'.val = 0 /\ term'.printed = "Error") ]_vars

AddSaveFailed ==
    /\ ret.op = "add" /\ ret.wrote = "IoError" /\ ret.status = "IoError"
    /\ ret.val = 0

\* C14: TodoList::new fails with the error of the load and yields no store
\* when the location exists and cannot be read or holds no JSON collection; a
\* store that it yields from an existing location holds what the file holds.
LoadFailureFailsNew ==
    [][ ret'.op = "new"
        => /\ file.kind = "truncated" => ret'.status # "Ok"
           /\ ret'.status # "Ok" => (~up' /\ file.kind # "absent")
           /\ up' <=> ret'.status = "Ok"
           /\ (up' /\ file.kind # "absent")
                 => (file.kind = "json" /\ tasks' = Persisted) ]_vars

NewFailedOnCutFile ==
    /\ ret.op = "new" /\ ret.status = "UnexpectedEof"
    /\ ~up
    /\ file.kind = "truncated"

\* an error of add, complete or delete is printed and the loop goes on
ErrorsPrinted ==
    (ret'.op \in Mutators /\ ret'.status # "Ok") => (up' /\ term'.printed = "Error")

\* C15 as claimed: an error of add, complete or delete is printed and the loop
\* goes on; the loop is left only by menu option 5.
LoopLeftOnlyByExit ==
    [][ /\ ErrorsPrinted
        /\ (up /\ ~up' /\ ret'.op # "new") => term'.choice = <<"5">> ]_vars

\* C15 as amended: the same, the loop being left by menu option 5 or by the
\* panic of get_input or print_menu when the terminal fails.
LoopLeftByExitOrPanic ==
    [][ /\ ErrorsPrinted
        /\ (up /\ ~up' /\ ret'.op # "new")
              => (term'.choice = <<"5">> \/ term'.printed = "panic") ]_vars

\* a storage error was printed and the store is still there
StorageErrorPrinted ==
    /\ ret.op = "delete" /\ ret.status = "IoError"
    /\ term.printed = "Error"
    /\ up

\* memory and file hold the same collection
InSync ==
    \/ file.kind = "json" /\ Persisted = tasks
    \/ file.kind = "absent" /\ tasks = EmptyTasks

\* memory and file hold the same collection after the step
InSyncAfter ==
    \/ file'.kind = "json" /\ Deserialize(file'.members) = tasks'
    \/ file'.kind = "absent" /\ tasks' = EmptyTasks

\* the mutation of a call whose save failed is in memory
MutationKept ==
    /\ (ret'.op = "add" /\ ret'.status = "IoError")
          => /\ next_id' = next_id + 1
             /\ DOMAIN tasks' = DOMAIN tasks \cup {next_id}
             /\ tasks'[next_id] = [ id |-> next_id, description |-> ret'.description,
                                    completed |-> FALSE ]
    /\ (ret'.op = "complete" /\ ret'.status = "IoError")
          => (DOMAIN tasks' = DOMAIN tasks /\ tasks'[ret'.id].completed)
    /\ (ret'.op = "delete" /\ ret'.status = "IoError")
          => (ret'.id \in DOMAIN tasks /\ DOMAIN tasks' = DOMAIN tasks \ {ret'.id})

\* C16 as claimed: a failed save leaves the mutation in memory, memory and file
\* then differ, and the next save that succeeds writes everything.
FailedSaveDiverges ==
    [][ /\ MutationKept
        /\ (ret'.op \in Mutators /\ ret'.status = "IoError") => ~InSyncAfter
        /\ (ret'.op \in Mutators /\ ret'.status = "Ok") => InSyncAfter ]_vars

\* C16 as amended: a failed save leaves the mutation in memory and the file as it
\* was or cut short, so memory and file differ if they agreed before and the call
\* changed the collection; the next save that succeeds writes everything.
FailedSaveKeepsMutation ==
    [][ /\ MutationKept
        /\ (ret'.op \in Mutators /\ ret'.status = "IoError")
              => /\ file' \in {file, Truncated}
                 /\ (InSync /\ tasks' # tasks) => ~InSyncAfter
        /\ (ret'.op \in Mutators /\ ret'.status = "Ok") => InSyncAfter ]_vars

\* a delete whose save failed: the task is gone from memory and still in the file
DeleteOnlyInMemory ==
    /\ ret.op = "delete" /\ ret.status = "IoError"
    /\ ret.id \notin DOMAIN tasks
    /\ file.kind = "json" /\ ret.id \in DOMAIN Persisted

\* C17: a successful delete removes only its entry, a successful complete changes
\* only the flag of its task, neither changes the counter, a successful add
\* changes no existing task, and no step changes the id or the description of a
\* task that stays in the collection.
FrameOfMutations ==
    [][ /\ (ret'.op = "delete" /\ ret'.status = "Ok")
              => /\ DOMAIN tasks' = DOMAIN tasks \ {ret'.id}
                 /\ \A k \in DOMAIN tasks' : tasks'[k] = tasks[k]
                 /\ next_id' = next_id
        /\ (ret'.op = "complete" /\ ret'.status = "Ok")
              => /\ DOMAIN tasks' = DOMAIN tasks
                 /\ \A k \in DOMAIN tasks \ {ret'.id} : tasks'[k] = tasks[k]
                 /\ next_id' = next_id
        /\ (ret'.op = "add" /\ ret'.status = "Ok")
              => \A k \in DOMAIN tasks : k \in DOMAIN tasks' /\ tasks'[k] = tasks[k]
        /\ \A k \in (DOMAIN tasks) \cap (DOMAIN tasks') :
              /\ tasks'[k].id = tasks[k].id
              /\ tasks'[k].description = tasks[k].description ]_vars

\* the newest task was deleted, an older one is kept and the counter stays
DeletedNewest ==
    /\ ret.op = "delete" /\ ret.status = "Ok"
    /\ DOMAIN tasks # {}
    /\ \A k \in DOMAIN tasks : k < ret.id
    /\ next_id = ret.id + 1

\* C18: every task is stored under its own id, every id is at least 1 and less
\* than the counter, no two tasks share an id, and no description is blank.
StoreInvariant ==
    up => /\ \A k \in DOMAIN tasks :
               /\ tasks[k].id = k
               /\ 1 <= k /\ k < next_id
               /\ ~IsBlank(tasks[k].description)
          /\ \A j \in DOMAIN tasks : \A k \in DOMAIN tasks :
               j # k => tasks[j].id # tasks[k].id

\* a store built from the file, to which a task was added
AddedAfterReload ==
    /\ up /\ ~firstRun
    /\ ret.op = "add" /\ ret.status = "Ok"
    /\ Cardinality(DOMAIN tasks) >= 2

IsUnsignedText(text) ==
    LET digits == IF text # <<>> /\ text[1] = "+" THEN SubSeq(text, 2, Len(text)) ELSE text
    IN /\ Len(digits) >= 1
       /\ \A i \in DOMAIN digits :
            digits[i] \in {"0", "1", "2", "3", "4", "5", "6", "7", "8", "9"}

\* C19: when the text entered for complete or delete is no unsigned integer,
\* no operation of the store is called, nothing changes, "Invalid ID format" is
\* printed and the loop goes on; an unrecognised menu choice calls no operation.
NonNumericIdRefused ==
    [][ /\ (term'.choice \in {<<"3">>, <<"4">>} /\ ~IsUnsignedText(term'.text))
              => /\ ret'.op = "none"
                 /\ term'.printed = "Invalid ID format"
                 /\ up'
                 /\ UNCHANGED <<tasks, next_id, file>>
        /\ (up' /\ ret'.op # "new"
               /\ term'.choice \notin {<<"1">>, <<"2">>, <<"3">>, <<"4">>, <<"5">>})
              => (ret'.op = "none" /\ UNCHANGED <<tasks, next_id, file>>) ]_vars

\* "1x" was entered for delete while task 1 exists
IdTextRefused ==
    /\ term.choice = <<"4">> /\ term.text = <<"1", "x">>
    /\ term.printed = "Invalid ID format"
    /\ up /\ 1 \in DOMAIN tasks

====
